---- MODULE Spec2Model ----
(***************************************************************************)
(* Model of Blenderscript.py: the placement of hospitals, clouds and       *)
(* drones, and the per-frame handler update_scene (move_clouds, then the   *)
(* drone loop with arrival/retargeting and move_drone).                    *)
(*                                                                         *)
(* Lengths are fixed-point integers: one model unit is 0.01 scene units,   *)
(* so CLOUD_SPEED = 0.1 is 10 and DRONE_SPEED = 0.15 is 15.  A cloud        *)
(* heading is stored times DirScale (|d| = DirScale is a unit vector), the *)
(* unit vectors of move_drone times NormScale.                             *)
(***************************************************************************)
EXTENDS Integers, Sequences, FiniteSets

VARIABLES pc, NUM_HOSPITALS, NUM_DRONES, pos, hospitals, clouds, drones,
          frame, idx, cloud_flags, cloud_frame, last_op, route

\* pc            where the script is: a placement loop, the drone
\*               initialization, idle between frames, or a statement of
\*               update_scene
\* pos           the candidate a placement loop has drawn last
\* hospitals     hospital_positions, in placement order (a hospital is its index)
\* clouds        location and cloud["direction"] of each cloud
\* drones        the tuples (drone.location, target, current_hospital)
\* frame         the number of frame_change_pre calls so far
\* idx           the index of the drone loop
\* cloud_flags   near_hospital and the two boundary tests of each cloud's last move
\* cloud_frame   the frame in which move_clouds ran last
\* last_op       the branch of the drone loop each drone took last
\* route         per drone, the hospitals it was placed at: its start hospital,
\*               then the departure_point of each retarget
vars == <<pc, NUM_HOSPITALS, NUM_DRONES, pos, hospitals, clouds, drones,
          frame, idx, cloud_flags, cloud_frame, last_op, route>>

\* ---------------------------------------------------------------- bounds
MaxTicks == 58
MaxDrones == 2

\* ------------------------------------------------------------- constants
DirScale == 10
NormScale == 1000

CITY_GRID_SIZE == 20
BUILDING_SPACING == 500
HOSPITAL_RADIUS == 200
HOSPITAL_HEIGHT == 800
CLOUD_RADIUS == 300
CLOUD_ALTITUDE == 1000
CLOUD_SPEED == 10
DRONE_ALTITUDE == CLOUD_ALTITUDE
DRONE_SPEED == 15
DRONE_AVOIDANCE_RADIUS == CLOUD_RADIUS + 300
CITY_BOUNDARY_X == (CITY_GRID_SIZE * BUILDING_SPACING) \div 2
CITY_BOUNDARY_Y == (CITY_GRID_SIZE * BUILDING_SPACING) \div 2

\* ---------------------------------------------------------------- vectors
Vector(x, y, z) == [x |-> x, y |-> y, z |-> z]
Zero == Vector(0, 0, 0)
VAdd(a, b) == Vector(a.x + b.x, a.y + b.y, a.z + b.z)
VSub(a, b) == Vector(a.x - b.x, a.y - b.y, a.z - b.z)
VMul(a, k) == Vector(a.x * k, a.y * k, a.z * k)
Abs(n) == IF n < 0 THEN -n ELSE n
\* a / b rounded to the nearest integer, b > 0
RDiv(a, b) == (2 * a + b) \div (2 * b)
VDiv(a, k) == Vector(RDiv(a.x, k), RDiv(a.y, k), RDiv(a.z, k))
Len2(a) == a.x * a.x + a.y * a.y + a.z * a.z

RECURSIVE SqrtBetween(_, _, _)
SqrtBetween(n, lo, hi) ==
    IF lo >= hi THEN lo
    ELSE LET mid == (lo + hi + 1) \div 2
         IN  IF mid * mid <= n THEN SqrtBetween(n, mid, hi)
             ELSE SqrtBetween(n, lo, mid - 1)
\* floor of the square root
Isqrt(n) == SqrtBetween(n, 0, 32767)
\* the length of a vector, to the nearest unit
Length(a) ==
    LET r == Isqrt(Len2(a))
    IN  IF Len2(a) - r * r > r THEN r + 1 ELSE r
\* Vector.normalized(), times NormScale when a is in any scale; the zero
\* vector normalizes to itself
Normalized(a) ==
    IF Len2(a) = 0 THEN Zero ELSE VDiv(VMul(a, NormScale), Length(a))

AtAltitude(p, alt) == Vector(p.x, p.y, alt)

\* ------------------------------------------------------- sampled inputs
\* random.randint draws of the two counts
HospitalCounts == {2, 3}
DroneCounts == 1..MaxDrones
NUM_CLOUDS == NUM_HOSPITALS * 2

HospitalZ == HOSPITAL_HEIGHT \div 2
SiteA == Vector(4500, 0, HospitalZ)
SiteB == Vector(4500, -420, HospitalZ)
SiteC == Vector(4200, -100, HospitalZ)
SiteD == Vector(4500, 450, HospitalZ)
\* the draws of random.uniform for the k-th hospital
HospitalCandidates(k) ==
    IF k = 1 THEN {SiteA}
    ELSE IF k = 2 THEN {SiteB, SiteA, SiteC}
    ELSE {SiteD, SiteB}

\* the draws of random.uniform for the k-th cloud
CloudCandidates(k) ==
    IF k = 1 THEN {Vector(4995, 100, CLOUD_ALTITUDE), Vector(4500, 0, CLOUD_ALTITUDE)}
    ELSE IF k = 2 THEN {Vector(4995, 4995, CLOUD_ALTITUDE), Vector(4995, 500, CLOUD_ALTITUDE)}
    ELSE {Vector(-4000, 1000 * (k - 5), CLOUD_ALTITUDE)}
\* the normalized heading drawn for the k-th cloud
HeadingCandidates(k) ==
    IF k = 1 THEN {Vector(-10, 0, 0), Vector(6, 8, 0)}
    ELSE IF k = 2 THEN {Vector(6, 8, 0)}
    ELSE {Vector(8, -6, 0)}

\* ------------------------------------------------------------ placement
Range(s) == {s[i] : i \in 1..Len(s)}

HospitalFits_Always(p, placed) == TRUE

\* line 214: the candidate is farther than two hospital radii from every
\* hospital placed so far
HospitalFits(p, placed) ==
    \A q \in Range(placed) :
        Len2(VSub(p, q)) > (HOSPITAL_RADIUS * 2) * (HOSPITAL_RADIUS * 2)

\* lines 228-229: the acceptance test of a cloud candidate, on the full 3D
\* difference of the candidate and each stored position
CloudFits(p, placed, hosp) ==
    /\ \A c \in Range(placed) :
           Len2(VSub(p, c.location)) > (CLOUD_RADIUS * 2) * (CLOUD_RADIUS * 2)
    /\ \A q \in Range(hosp) :
           Len2(VSub(p, q)) >
               (CLOUD_RADIUS + HOSPITAL_RADIUS) * (CLOUD_RADIUS + HOSPITAL_RADIUS)

Init ==
    /\ pc = "hospital_sample"
    /\ NUM_HOSPITALS \in HospitalCounts
    /\ NUM_DRONES \in DroneCounts
    /\ pos = Zero
    /\ hospitals = <<>>
    /\ clouds = <<>>
    /\ drones = <<>>
    /\ frame = 0
    /\ idx = 0
    /\ cloud_flags = <<>>
    /\ cloud_frame = 0
    /\ last_op = <<>>
    /\ route = <<>>

HospitalSample ==
    /\ pc = "hospital_sample"
    /\ \E p \in HospitalCandidates(Len(hospitals) + 1) : pos' = p
    /\ pc' = "hospital_test"
    /\ UNCHANGED <<NUM_HOSPITALS, NUM_DRONES, hospitals, clouds, drones, frame,
                   idx, cloud_flags, cloud_frame, last_op, route>>

HospitalAccept ==
    /\ pc = "hospital_test"
    /\ HospitalFits(pos, hospitals)
    /\ hospitals' = Append(hospitals, pos)
    /\ pc' = IF Len(hospitals) + 1 = NUM_HOSPITALS THEN "cloud_sample"
             ELSE "hospital_sample"
    /\ UNCHANGED <<NUM_HOSPITALS, NUM_DRONES, pos, clouds, drones, frame, idx,
                   cloud_flags, cloud_frame, last_op, route>>

HospitalReject ==
    /\ pc = "hospital_test"
    /\ ~HospitalFits(pos, hospitals)
    /\ pc' = "hospital_sample"
    /\ UNCHANGED <<NUM_HOSPITALS, NUM_DRONES, pos, hospitals, clouds, drones,
                   frame, idx, cloud_flags, cloud_frame, last_op, route>>

CloudSample ==
    /\ pc = "cloud_sample"
    /\ \E p \in CloudCandidates(Len(clouds) + 1) : pos' = p
    /\ pc' = "cloud_test"
    /\ UNCHANGED <<NUM_HOSPITALS, NUM_DRONES, hospitals, clouds, drones, frame,
                   idx, cloud_flags, cloud_frame, last_op, route>>

CloudAccept ==
    /\ pc = "cloud_test"
    /\ CloudFits(pos, clouds, hospitals)
    /\ \E d \in HeadingCandidates(Len(clouds) + 1) :
           clouds' = Append(clouds, [location |-> pos, direction |-> d])
    /\ cloud_flags' = Append(cloud_flags,
                             [near |-> FALSE, wall_x |-> FALSE, wall_y |-> FALSE])
    /\ pc' = IF Len(clouds) + 1 = NUM_CLOUDS THEN "drone_init" ELSE "cloud_sample"
    /\ UNCHANGED <<NUM_HOSPITALS, NUM_DRONES, pos, hospitals, drones, frame, idx,
                   cloud_frame, last_op, route>>

CloudReject ==
    /\ pc = "cloud_test"
    /\ ~CloudFits(pos, clouds, hospitals)
    /\ pc' = "cloud_sample"
    /\ UNCHANGED <<NUM_HOSPITALS, NUM_DRONES, pos, hospitals, clouds, drones,
                   frame, idx, cloud_flags, cloud_frame, last_op, route>>

\* lines 236-246: one iteration of the drone initialization loop
DroneInit ==
    /\ pc = "drone_init"
    /\ \E start_hospital \in 1..Len(hospitals) :
         \E end_hospital \in (1..Len(hospitals)) \ {start_hospital} :
           /\ drones' = Append(drones,
                  [location |-> AtAltitude(hospitals[start_hospital], DRONE_ALTITUDE),
                   target |-> AtAltitude(hospitals[end_hospital], DRONE_ALTITUDE),
                   current_hospital |-> start_hospital])
           /\ route' = Append(route, <<start_hospital>>)
    /\ last_op' = Append(last_op, "none")
    /\ pc' = IF Len(drones) + 1 = NUM_DRONES THEN "idle" ELSE "drone_init"
    /\ UNCHANGED <<NUM_HOSPITALS, NUM_DRONES, pos, hospitals, clouds, frame, idx,
                   cloud_flags, cloud_frame>>

\* ------------------------------------------------------------ move_clouds
NearHospital(new_pos, hosp) ==
    \E h \in Range(hosp) :
        Len2(VSub(AtAltitude(h, CLOUD_ALTITUDE), new_pos)) <
            (CLOUD_RADIUS + HOSPITAL_RADIUS) * (CLOUD_RADIUS + HOSPITAL_RADIUS)

Step(direction, speed) == VDiv(VMul(direction, speed), DirScale)

BounceX_HospitalOnly(new_pos, near_hospital) == near_hospital
BounceX(new_pos, near_hospital) == Abs(new_pos.x) > CITY_BOUNDARY_X \/ near_hospital
BounceY(new_pos, near_hospital) == Abs(new_pos.y) > CITY_BOUNDARY_Y \/ near_hospital

CloudNewLocation_Candidate(location, old_direction, direction) ==
    VAdd(location, Step(old_direction, CLOUD_SPEED))

\* line 161: the position written back, from the old position, the heading
\* read at line 146 and the heading after the flips
CloudNewLocation(location, old_direction, direction) ==
    VAdd(location, Step(direction, CLOUD_SPEED))

MoveCloud(cloud, hosp) ==
    LET new_pos == VAdd(cloud.location, Step(cloud.direction, CLOUD_SPEED))
        near_hospital == NearHospital(new_pos, hosp)
        direction ==
            Vector(IF BounceX(new_pos, near_hospital)
                       THEN -cloud.direction.x ELSE cloud.direction.x,
                   IF BounceY(new_pos, near_hospital)
                       THEN -cloud.direction.y ELSE cloud.direction.y,
                   cloud.direction.z)
    IN  [location |-> CloudNewLocation(cloud.location, cloud.direction, direction),
         direction |-> direction]

CloudFlags(cloud, hosp) ==
    LET new_pos == VAdd(cloud.location, Step(cloud.direction, CLOUD_SPEED))
    IN  [near |-> NearHospital(new_pos, hosp),
         wall_x |-> Abs(new_pos.x) > CITY_BOUNDARY_X,
         wall_y |-> Abs(new_pos.y) > CITY_BOUNDARY_Y]

\* ------------------------------------------------------------- move_drone
Planar(p) == Vector(p.x, p.y, 0)

\* lines 172-179: the repulsion contributed by one cloud, times NormScale
Repulsion(current_pos, cloud) ==
    LET cloud_pos == Planar(cloud.location)
        drone_pos_2d == Planar(current_pos)
        diff == VSub(cloud_pos, drone_pos_2d)
        distance == Length(diff)
    IN  IF Len2(diff) < DRONE_AVOIDANCE_RADIUS * DRONE_AVOIDANCE_RADIUS
        THEN LET direction == Normalized(VSub(drone_pos_2d, cloud_pos))
                 strength == RDiv(3 * NormScale * (DRONE_AVOIDANCE_RADIUS - distance),
                                  2 * DRONE_AVOIDANCE_RADIUS)
             IN  VDiv(VMul(direction, strength), NormScale)
        ELSE Zero

RECURSIVE SumRepulsion(_, _, _)
SumRepulsion(current_pos, cl, n) ==
    IF n = 0 THEN Zero
    ELSE VAdd(SumRepulsion(current_pos, cl, n - 1), Repulsion(current_pos, cl[n]))

move_drone(location, target, cl) ==
    LET current_pos == location
        target_vector == VSub(target, current_pos)
        attraction == IF Len2(target_vector) > 0 THEN Normalized(target_vector)
                      ELSE Zero
        repulsion == SumRepulsion(current_pos, cl, Len(cl))
        sum == VAdd(attraction, repulsion)
        movement == IF Len2(sum) > 0 THEN Normalized(sum) ELSE sum
        new_pos == VAdd(current_pos, VDiv(VMul(movement, DRONE_SPEED), NormScale))
    IN  AtAltitude(new_pos, DRONE_ALTITUDE)

\* ----------------------------------------------------------- update_scene
UpdateSceneBody_DronesFirst == <<"drone_loop", "move_clouds">>

\* the statements of update_scene, in program order
UpdateSceneBody == <<"move_clouds", "drone_loop">>

After(stmt) ==
    LET i == CHOOSE j \in 1..Len(UpdateSceneBody) : UpdateSceneBody[j] = stmt
    IN  IF i < Len(UpdateSceneBody) THEN UpdateSceneBody[i + 1] ELSE "idle"

\* the host fires frame_change_pre: update_scene is entered
FrameChange ==
    /\ pc = "idle"
    /\ frame < MaxTicks
    /\ frame' = frame + 1
    /\ pc' = UpdateSceneBody[1]
    /\ idx' = 1
    /\ UNCHANGED <<NUM_HOSPITALS, NUM_DRONES, pos, hospitals, clouds, drones,
                   cloud_flags, cloud_frame, last_op, route>>

MoveClouds ==
    /\ pc = "move_clouds"
    /\ clouds' = [c \in 1..Len(clouds) |-> MoveCloud(clouds[c], hospitals)]
    /\ cloud_flags' = [c \in 1..Len(clouds) |-> CloudFlags(clouds[c], hospitals)]
    /\ cloud_frame' = frame
    /\ pc' = After("move_clouds")
    /\ UNCHANGED <<NUM_HOSPITALS, NUM_DRONES, pos, hospitals, drones, frame, idx,
                   last_op, route>>

Arrived_OneStep(location, target) ==
    Len2(VSub(location, target)) < DRONE_SPEED * DRONE_SPEED

\* line 254
Arrived(location, target) ==
    Len2(VSub(location, target)) < (DRONE_SPEED * 2) * (DRONE_SPEED * 2)

RetargetChoices_Any(current_hospital, n) == 1..n

\* line 256: the hospitals random.choice draws from
RetargetChoices(current_hospital, n) == (1..n) \ {current_hospital}

DeparturePoint_KeepZ(hospital_location) == hospital_location

\* lines 261-262
DeparturePoint(hospital_location) == AtAltitude(hospital_location, DRONE_ALTITUDE)

LoopAdvance ==
    IF idx = Len(drones)
    THEN pc' = After("drone_loop") /\ idx' = 1
    ELSE pc' = pc /\ idx' = idx + 1

DroneRetarget ==
    /\ pc = "drone_loop"
    /\ Arrived(drones[idx].location, drones[idx].target)
    /\ \E new_hospital \in RetargetChoices(drones[idx].current_hospital, Len(hospitals)) :
           drones' = [drones EXCEPT ![idx] =
               [location |-> DeparturePoint(hospitals[drones[idx].current_hospital]),
                target |-> AtAltitude(hospitals[new_hospital], DRONE_ALTITUDE),
                current_hospital |-> new_hospital]]
    /\ last_op' = [last_op EXCEPT ![idx] = "retarget"]
    /\ route' = [route EXCEPT ![idx] = Append(@, drones[idx].current_hospital)]
    /\ LoopAdvance
    /\ UNCHANGED <<NUM_HOSPITALS, NUM_DRONES, pos, hospitals, clouds, frame,
                   cloud_flags, cloud_frame>>

DroneMove ==
    /\ pc = "drone_loop"
    /\ ~Arrived(drones[idx].location, drones[idx].target)
    /\ drones' = [drones EXCEPT ![idx].location =
                      move_drone(drones[idx].location, drones[idx].target, clouds)]
    /\ last_op' = [last_op EXCEPT ![idx] = "move_drone"]
    /\ LoopAdvance
    /\ UNCHANGED <<NUM_HOSPITALS, NUM_DRONES, pos, hospitals, clouds, frame,
                   cloud_flags, cloud_frame, route>>

Placement ==
    \/ HospitalSample
    \/ HospitalAccept
    \/ HospitalReject
    \/ CloudSample
    \/ CloudAccept
    \/ CloudReject
    \/ DroneInit

Next ==
    \/ Placement
    \/ FrameChange
    \/ MoveClouds
    \/ DroneRetarget
    \/ DroneMove

Spec == Init /\ [][Next]_vars

\* the placement loops alone, which run until they break
PlacementSpec == Init /\ [][Placement]_vars /\ WF_vars(Placement)

\* ------------------------------------------------------------ properties
Threshold2 == (2 * DRONE_SPEED) * (2 * DRONE_SPEED)
Drones == 1..Len(drones)
Clouds == 1..Len(clouds)
Last(s) == s[Len(s)]

\* C1: a drone examined at distance < 2 * DRONE_SPEED from its target ends at
\* the position of its stored origin hospital at DRONE_ALTITUDE, with a target
\* that is a hospital other than that origin, and move_drone is not applied;
\* otherwise move_drone is applied and target and origin stay.  No other
\* step of the tick touches the drone.
C1_ArrivalOrMove ==
    [][/\ pc = "drone_loop" =>
            LET d == drones[idx]
                e == drones'[idx]
                origin == hospitals[d.current_hospital]
            IN  /\ IF Len2(VSub(d.location, d.target)) < Threshold2
                   THEN /\ e.location = Vector(origin.x, origin.y, DRONE_ALTITUDE)
                        /\ \E h \in 1..Len(hospitals) :
                              /\ h # d.current_hospital
                              /\ hospitals[h] # origin
                              /\ e.target = Vector(hospitals[h].x, hospitals[h].y,
                                                   DRONE_ALTITUDE)
                        /\ last_op'[idx] = "retarget"
                   ELSE /\ last_op'[idx] = "move_drone"
                        /\ e.location = move_drone(d.location, d.target, clouds)
                        /\ e.target = d.target
                        /\ e.current_hospital = d.current_hospital
                /\ \A o \in Drones \ {idx} : drones'[o] = drones[o]
       /\ pc \in {"idle", "move_clouds"} => drones' = drones]_vars

C1_Witness ==
    /\ pc = "idle"
    /\ \E d \in Drones : last_op[d] = "retarget"
    /\ \E d \in Drones : last_op[d] = "move_drone"

\* C2: every cloud is at CLOUD_ALTITUDE and every drone at DRONE_ALTITUDE, in
\* every reachable state.
C2_Altitude ==
    /\ \A c \in Clouds : clouds[c].location.z = CLOUD_ALTITUDE
    /\ \A d \in Drones : drones[d].location.z = DRONE_ALTITUDE

C2_Witness ==
    /\ \E d \in Drones : last_op[d] = "retarget"
    /\ \E d \in Drones : last_op[d] = "move_drone"
    /\ \E c \in Clouds : cloud_flags[c].near
    /\ \E c \in Clouds : cloud_flags[c].wall_x

\* C3: in move_clouds, a candidate beyond the boundary on an axis flips that
\* axis's stored heading component (both axes may flip), and the new position
\* is the old one plus the heading after the flips times CLOUD_SPEED.
C3_BounceUsesFlippedHeading ==
    [][pc = "move_clouds" =>
          \A c \in Clouds :
              LET p == clouds[c].location
                  d == clouds[c].direction
                  cand == VAdd(p, VDiv(VMul(d, CLOUD_SPEED), DirScale))
                  dn == clouds'[c].direction
              IN  /\ Abs(cand.x) > CITY_BOUNDARY_X => dn.x = -d.x
                  /\ Abs(cand.y) > CITY_BOUNDARY_Y => dn.y = -d.y
                  /\ clouds'[c].location =
                         VAdd(p, VDiv(VMul(dn, CLOUD_SPEED), DirScale))]_vars

C3_Witness ==
    \E c \in Clouds :
        /\ cloud_flags[c].wall_x
        /\ cloud_flags[c].wall_y
        /\ ~cloud_flags[c].near
        /\ clouds[c].direction.x # 0
        /\ clouds[c].direction.y # 0

\* C4: a cloud never exceeds the world bound on an axis by more than one
\* step of CLOUD_SPEED.
C4_WithinOneStep ==
    \A c \in Clouds :
        /\ Abs(clouds[c].location.x) <= CITY_BOUNDARY_X + CLOUD_SPEED
        /\ Abs(clouds[c].location.y) <= CITY_BOUNDARY_Y + CLOUD_SPEED

\* a hospital bounce has just pushed a cloud across the boundary
C4_Witness ==
    \E c \in Clouds :
        /\ cloud_flags[c].near
        /\ ~cloud_flags[c].wall_x
        /\ Abs(clouds[c].location.x) > CITY_BOUNDARY_X

\* C5: on every arrival the drone is reset to the hospital where the leg it
\* has just completed began (the start hospital, then the previous reset
\* point).
C5_ResetToDeparture ==
    [][(pc = "drone_loop"
          /\ Len2(VSub(drones[idx].location, drones[idx].target)) < Threshold2)
       => drones'[idx].location =
              AtAltitude(hospitals[Last(route[idx])], DRONE_ALTITUDE)]_vars

\* C6: each retarget stores an origin hospital different from the one stored
\* before it; with two hospitals the stored origin alternates between them.
C6_OriginAlternates ==
    [][(pc = "drone_loop"
          /\ Len2(VSub(drones[idx].location, drones[idx].target)) < Threshold2)
       => /\ drones'[idx].current_hospital # drones[idx].current_hospital
          /\ Len(hospitals) = 2 =>
                 drones'[idx].current_hospital = 3 - drones[idx].current_hospital]_vars

\* two retargets of one drone with two hospitals: stored origins A, B, A
C6_Witness ==
    /\ Len(hospitals) = 2
    /\ \E d \in Drones :
          /\ Len(route[d]) = 3
          /\ route[d][2] # route[d][3]
          /\ drones[d].current_hospital = route[d][2]

\* C7: when initialization completes no cloud is within
\* CLOUD_RADIUS + HOSPITAL_RADIUS of a hospital, measured at cloud altitude.
C7_CloudsClearOfHospitals ==
    (pc = "idle" /\ frame = 0) =>
        \A c \in Clouds : ~NearHospital(clouds[c].location, hospitals)

\* C8: the placement loops always end: the program leaves them, or stops in a
\* configuration error.
C8_PlacementEnds ==
    <>(pc \notin {"hospital_sample", "hospital_test", "cloud_sample", "cloud_test"})

\* C9: whenever a drone is examined or updated (the drone loop is running),
\* the last advance of the clouds was made in this same tick: the drones read
\* the cloud positions of tick t, never those of tick t-1.
C9_CloudsBeforeDrones ==
    pc = "drone_loop" => cloud_frame = frame

C9_Witness ==
    /\ pc = "drone_loop"
    /\ frame >= 2
    /\ idx = 2
    /\ last_op[1] = "move_drone"
    /\ \E c \in Clouds :
          Len2(VSub(Planar(clouds[c].location), Planar(drones[idx].location))) <
              DRONE_AVOIDANCE_RADIUS * DRONE_AVOIDANCE_RADIUS

\* C10: a drone never retargets in two consecutive ticks: right after a
\* retarget its distance to the new target is at least 2 * DRONE_SPEED.
C10_NoConsecutiveRetarget ==
    [][(pc = "drone_loop"
          /\ Len2(VSub(drones[idx].location, drones[idx].target)) < Threshold2)
       => /\ last_op[idx] # "retarget"
          /\ Len2(VSub(drones'[idx].location, drones'[idx].target)) >= Threshold2]_vars

\* a drone in normal movement in the tick after its retarget
C10_Witness ==
    \E d \in Drones :
        /\ Len(route[d]) >= 2
        /\ last_op[d] = "move_drone"
        /\ drones[d].location =
               move_drone(AtAltitude(hospitals[Last(route[d])], DRONE_ALTITUDE),
                          drones[d].target, clouds)

====
